---------------------------- MODULE Spec2Model ----------------------------
(***************************************************************************)
(* ImmutableListView and EmptyListView of react-native-immutable-list-view *)
(* as a state machine: one host-owned ImmutableListView instance (outer),  *)
(* the EmptyListView it may render, the ImmutableListView that the         *)
(* EmptyListView renders (inner), and InteractionManager's task queue.     *)
(***************************************************************************)
EXTENDS Integers, Sequences, FiniteSets, TLC

(***************************************************************************)
(* Bounds of the model.                                                    *)
(***************************************************************************)
\* number of componentWillReceiveProps calls the host makes on the outer view
MaxUpdates == 2

(***************************************************************************)
(* JavaScript values.                                                      *)
(* A prop that holds a string or a function is a string here: "undefined", *)
(* "" (the empty string), any other text, or a name starting a function.   *)
(***************************************************************************)
Undefined == "undefined"

HostFunction == "function:host"

IsFunction(v) == v \in {HostFunction, "function:renderEmptyInList(props)",
                        "function:EmptyListView.renderRow"}

\* JS truthiness of a string-or-function-or-undefined value
Truthy(v) == v \notin {Undefined, ""}

\* typeof v === 'string'
IsString(v) == v # Undefined /\ ~IsFunction(v)

\* rowsDuringInteraction is a number prop; Absent stands for `undefined`,
\* for which `undefined >= 0` is false.
Absent == -100

GreaterOrEqualZero(n) == n # Absent /\ n >= 0

Min(a, b) == IF a <= b THEN a ELSE b

(***************************************************************************)
(* Immutable.js collections.                                               *)
(* A collection is [type, nested, entries]; entries is the iteration order *)
(* of the collection, each entry [key, value].  A value is [val, sub]: a   *)
(* leaf carries val, a nested collection carries its own entries in sub    *)
(* as [key, val] pairs.  A List's keys are its indices 0..size-1.          *)
(***************************************************************************)
Leaf(s) == [val |-> s, sub |-> <<>>]

Nested(pairs) == [val |-> "", sub |-> pairs]

IndexKeys(vals) == [i \in 1..Len(vals) |-> [key |-> i - 1, val |-> vals[i]]]

\* Immutable.List([...strings])
ListOf(vals) ==
    [type |-> "List", nested |-> FALSE,
     entries |-> [i \in 1..Len(vals) |-> [key |-> i - 1, value |-> Leaf(vals[i])]]]

\* Immutable.OrderedMap of key -> string, given as <<key, string>> pairs
MapOf(pairs) ==
    [type |-> "Map", nested |-> FALSE,
     entries |-> [i \in 1..Len(pairs) |->
                    [key |-> pairs[i][1], value |-> Leaf(pairs[i][2])]]]

\* Immutable.OrderedMap of section key -> Immutable.List of strings
SectionMapOf(pairs) ==
    [type |-> "Map", nested |-> TRUE,
     entries |-> [i \in 1..Len(pairs) |->
                    [key |-> pairs[i][1], value |-> Nested(IndexKeys(pairs[i][2]))]]]

\* collection.size
Size(coll) == Len(coll.entries)

\* collection.isEmpty()
IsEmpty(coll) == Size(coll) = 0

\* immutableData the host left out: undefined, which has no entries and no
\* methods
Missing == [type |-> "undefined", nested |-> FALSE, entries |-> <<>>]

\* collection.slice(0, end) for end >= 0: the first `end` entries in iteration
\* order; a List is re-indexed from 0, a Map keeps its keys.
slice(coll, end) ==
    LET n == Min(end, Size(coll))
        kept == SubSeq(coll.entries, 1, n)
    IN  [coll EXCEPT !.entries =
            IF coll.type = "List"
            THEN [i \in 1..n |-> [key |-> i - 1, value |-> kept[i].value]]
            ELSE kept]

\* collection.get(key): the value at key, or undefined
Get(coll, key) ==
    IF \E i \in 1..Size(coll) : coll.entries[i].key = key
    THEN coll.entries[CHOOSE i \in 1..Size(coll) : coll.entries[i].key = key].value
    ELSE Leaf(Undefined)

\* a nested value read as a collection of its own rows
AsCollection(value) ==
    [type |-> "List", nested |-> FALSE,
     entries |-> [i \in 1..Len(value.sub) |->
                    [key |-> value.sub[i].key, value |-> Leaf(value.sub[i].val)]]]

(***************************************************************************)
(* utils: keys, row identities, emptiness, the unitary list.               *)
(***************************************************************************)
\* utils.getKeys: the keys of the collection in iteration order
getKeys(immutableData) ==
    [i \in 1..Size(immutableData) |-> immutableData.entries[i].key]

\* utils.getRowIdentities: per section, in iteration order, the keys of the
\* section's rows in the section's own iteration order
getRowIdentities(immutableSectionData) ==
    [i \in 1..Size(immutableSectionData) |->
        [j \in 1..Len(immutableSectionData.entries[i].value.sub) |->
            immutableSectionData.entries[i].value.sub[j].key]]

\* utils.getValueFromKey on an Immutable collection: data.get(key)
getValueFromKey(key, data) == Get(data, key)

\* utils.isEmptyListView: no entries, or only sections without rows while
\* empty sections are excluded
isEmptyListView(immutableData, enableEmptySections) ==
    \/ IsEmpty(immutableData)
    \/ /\ immutableData.nested
       /\ ~enableEmptySections
       /\ \A i \in 1..Size(immutableData) : immutableData.entries[i].value.sub = <<>>

\* utils.UNITARY_LIST: a List of one element
UNITARY_LIST == ListOf(<<"empty_list">>)

(***************************************************************************)
(* ListView.DataSource.                                                    *)
(* cloneWithRows files the blob under the single section id 's1'           *)
(* (wrapped); cloneWithRowsAndSections keeps the blob as given.            *)
(***************************************************************************)
DefaultSectionID == -1

NewDataSource ==
    [dataBlob |-> ListOf(<<>>), wrapped |-> FALSE,
     sectionIdentities |-> <<>>, rowIdentities |-> <<>>]

cloneWithRows(dataSource, dataBlob, rowIdentities) ==
    [dataBlob |-> dataBlob, wrapped |-> TRUE,
     sectionIdentities |-> <<DefaultSectionID>>,
     rowIdentities |-> <<rowIdentities>>]

cloneWithRowsAndSections(dataSource, dataBlob, sectionIdentities, rowIdentities) ==
    [dataBlob |-> dataBlob, wrapped |-> FALSE,
     sectionIdentities |-> sectionIdentities,
     rowIdentities |-> rowIdentities]

RECURSIVE SumLen(_)
SumLen(seqs) == IF seqs = <<>> THEN 0 ELSE Len(Head(seqs)) + SumLen(Tail(seqs))

\* dataSource.getRowCount()
getRowCount(dataSource) == SumLen(dataSource.rowIdentities)

\* mutant: the row is looked up by the section id and the section by the row id
getRowData_Swapped(dataSource, sectionID, rowID) ==
    LET rowData ==
            IF dataSource.wrapped
            THEN IF rowID = DefaultSectionID
                 THEN dataSource.dataBlob ELSE ListOf(<<>>)
            ELSE AsCollection(getValueFromKey(rowID, dataSource.dataBlob))
    IN  getValueFromKey(sectionID, rowData)

\* the getRowData the component configures its data source with
getRowData(dataSource, sectionID, rowID) ==
    LET rowData ==
            IF dataSource.wrapped
            THEN IF sectionID = DefaultSectionID
                 THEN dataSource.dataBlob ELSE ListOf(<<>>)
            ELSE AsCollection(getValueFromKey(sectionID, dataSource.dataBlob))
    IN  getValueFromKey(rowID, rowData)

(***************************************************************************)
(* ImmutableListView.                                                      *)
(* An instance is [props, dataSource, interactionOngoing, canSetState,     *)
(* listViewRef, log]: this.props, this.state, this.canSetState and         *)
(* this.listViewRef, plus the record of the setState calls it has made:    *)
(* for each, the props object derived from (by its id), whether the        *)
(* interaction had just finished and whether the partial data were         *)
(* derived.                                                                *)
(***************************************************************************)
\* A props object: its identity and the props the components read.
MkProps(id, data, rows, sectionHeader, empty, emptyInList, emptySections, row, text) ==
    [id |-> id, immutableData |-> data, rowsDuringInteraction |-> rows,
     renderSectionHeader |-> sectionHeader, renderEmpty |-> empty,
     renderEmptyInList |-> emptyInList, enableEmptySections |-> emptySections,
     renderRow |-> row, emptyText |-> text]

\* static defaultProps: a prop left undefined takes its default
defaultProps(props) ==
    [props EXCEPT !.renderEmptyInList = IF @ = Undefined THEN "No data." ELSE @]

\* the instance after construction (the state initialiser)
NewImmutableListView(props) ==
    [props |-> props, dataSource |-> NewDataSource, interactionOngoing |-> TRUE,
     canSetState |-> FALSE, listViewRef |-> Undefined, log |-> <<>>]

\* mutant: the interaction flag of the state is not looked at
shouldDisplayPartialData_WhateverTheFlag(self, props, interactionHasJustFinished) ==
    /\ GreaterOrEqualZero(props.rowsDuringInteraction)
    /\ ~interactionHasJustFinished

shouldDisplayPartialData(self, props, interactionHasJustFinished) ==
    /\ GreaterOrEqualZero(props.rowsDuringInteraction)
    /\ self.interactionOngoing
    /\ ~interactionHasJustFinished

\* mutant: the keys and row identities are taken from the whole collection
\* while the blob is the displayed one
deriveState_KeysOfAllData(self, props, interactionHasJustFinished) ==
    LET partial == shouldDisplayPartialData(self, props, interactionHasJustFinished)
        displayData == IF partial
                       THEN slice(props.immutableData, props.rowsDuringInteraction)
                       ELSE props.immutableData
        updatedDataSource ==
            IF props.renderSectionHeader
            THEN cloneWithRowsAndSections(self.dataSource, displayData,
                     getKeys(props.immutableData), getRowIdentities(props.immutableData))
            ELSE cloneWithRows(self.dataSource, displayData, getKeys(props.immutableData))
    IN  [self EXCEPT
           !.dataSource = updatedDataSource,
           !.interactionOngoing =
               IF interactionHasJustFinished THEN FALSE ELSE self.interactionOngoing,
           !.log = Append(@, [id |-> props.id,
                              finished |-> interactionHasJustFinished,
                              partial |-> partial])]

\* setStateFromProps past its guard: the derivation and the setState call
deriveState(self, props, interactionHasJustFinished) ==
    LET partial == shouldDisplayPartialData(self, props, interactionHasJustFinished)
        displayData == IF partial
                       THEN slice(props.immutableData, props.rowsDuringInteraction)
                       ELSE props.immutableData
        updatedDataSource ==
            IF props.renderSectionHeader
            THEN cloneWithRowsAndSections(self.dataSource, displayData,
                     getKeys(displayData), getRowIdentities(displayData))
            ELSE cloneWithRows(self.dataSource, displayData, getKeys(displayData))
    IN  [self EXCEPT
           !.dataSource = updatedDataSource,
           !.interactionOngoing =
               IF interactionHasJustFinished THEN FALSE ELSE self.interactionOngoing,
           !.log = Append(@, [id |-> props.id,
                              finished |-> interactionHasJustFinished,
                              partial |-> partial])]

\* mutant: the canSetState guard is missing
setStateFromProps_Unguarded(self, props, interactionHasJustFinished) ==
    deriveState(self, props, interactionHasJustFinished)

setStateFromProps(self, props, interactionHasJustFinished) ==
    IF ~self.canSetState THEN self
    ELSE deriveState(self, props, interactionHasJustFinished)

\* setStateFromProps raises a TypeError: past its guard it calls
\* immutableData.slice on undefined
throwsTypeError(self, props, interactionHasJustFinished) ==
    /\ self.canSetState
    /\ shouldDisplayPartialData(self, props, interactionHasJustFinished)
    /\ props.immutableData = Missing

\* mutant: the state is not set right away, only after the interaction
setStateFromPropsAfterInteraction_OnlyDeferred(self, props) ==
    [self |-> self,
     scheduled |-> IF GreaterOrEqualZero(props.rowsDuringInteraction)
                   THEN <<props>> ELSE <<>>,
     thrown |-> FALSE]

\* The result is the instance, the callbacks handed to
\* InteractionManager.runAfterInteractions, each closing over `props`, and
\* whether the method has thrown (then before it scheduled anything).
setStateFromPropsAfterInteraction(self, props) ==
    IF throwsTypeError(self, props, FALSE)
    THEN [self |-> self, scheduled |-> <<>>, thrown |-> TRUE]
    ELSE [self |-> setStateFromProps(self, props, FALSE),
          scheduled |-> IF GreaterOrEqualZero(props.rowsDuringInteraction)
                        THEN <<props>> ELSE <<>>,
          thrown |-> FALSE]

componentWillMount(self) ==
    setStateFromPropsAfterInteraction([self EXCEPT !.canSetState = TRUE], self.props)

\* React assigns this.props after the method returns
componentWillReceiveProps(self, newProps) ==
    LET r == setStateFromPropsAfterInteraction(self, newProps)
    IN  IF r.thrown THEN r
        ELSE [self |-> [r.self EXCEPT !.props = newProps], scheduled |-> r.scheduled,
              thrown |-> FALSE]

componentWillUnmount(self) == [self EXCEPT !.canSetState = FALSE]

\* What render returns: an element [type, props, dataSource]; type "null" when
\* renderEmpty returns null; dataSource is the prop of that name, given to the
\* ListView only.  A function given as renderEmpty returns an element.
Element(type, props) == [type |-> type, props |-> props, dataSource |-> NewDataSource]

\* mutant: renderEmptyInList is looked at before renderEmpty
renderEmpty_InListFirst(self) ==
    LET props == self.props
        shouldTryToRenderEmpty == Truthy(props.renderEmpty) \/ Truthy(props.renderEmptyInList)
    IN  IF shouldTryToRenderEmpty
           /\ isEmptyListView(props.immutableData, props.enableEmptySections)
        THEN IF Truthy(props.renderEmptyInList)
             THEN IF IsString(props.renderEmptyInList)
                  THEN Element("EmptyListView",
                           [props EXCEPT !.renderRow = Undefined,
                                         !.emptyText = props.renderEmptyInList])
                  ELSE Element("EmptyListView",
                           [props EXCEPT !.renderRow = "function:renderEmptyInList(props)"])
             ELSE IF Truthy(props.renderEmpty)
             THEN IF IsString(props.renderEmpty)
                  THEN Element("Text", props)
                  ELSE Element("renderEmpty(props)", props)
             ELSE Element("null", props)
        ELSE Element("null", props)

\* mutant: the host's renderRow is left among the props passed to the
\* EmptyListView when renderEmptyInList is a string
renderEmpty_RenderRowKept(self) ==
    LET props == self.props
        shouldTryToRenderEmpty == Truthy(props.renderEmpty) \/ Truthy(props.renderEmptyInList)
    IN  IF shouldTryToRenderEmpty
           /\ isEmptyListView(props.immutableData, props.enableEmptySections)
        THEN IF Truthy(props.renderEmpty)
             THEN IF IsString(props.renderEmpty)
                  THEN Element("Text", props)
                  ELSE Element("renderEmpty(props)", props)
             ELSE IF Truthy(props.renderEmptyInList)
             THEN IF IsString(props.renderEmptyInList)
                  THEN Element("EmptyListView",
                           [props EXCEPT !.emptyText = props.renderEmptyInList])
                  ELSE Element("EmptyListView",
                           [props EXCEPT !.renderRow = "function:renderEmptyInList(props)"])
             ELSE Element("null", props)
        ELSE Element("null", props)

\* mutant: emptiness is that of the data the stored data source was cloned from
renderEmpty_OfDisplayedData(self) ==
    LET props == self.props
        shouldTryToRenderEmpty == Truthy(props.renderEmpty) \/ Truthy(props.renderEmptyInList)
    IN  IF shouldTryToRenderEmpty
           /\ isEmptyListView(self.dataSource.dataBlob, props.enableEmptySections)
        THEN IF Truthy(props.renderEmpty)
             THEN IF IsString(props.renderEmpty)
                  THEN Element("Text", props)
                  ELSE Element("renderEmpty(props)", props)
             ELSE IF Truthy(props.renderEmptyInList)
             THEN IF IsString(props.renderEmptyInList)
                  THEN Element("EmptyListView",
                           [props EXCEPT !.renderRow = Undefined,
                                         !.emptyText = props.renderEmptyInList])
                  ELSE Element("EmptyListView",
                           [props EXCEPT !.renderRow = "function:renderEmptyInList(props)"])
             ELSE Element("null", props)
        ELSE Element("null", props)

renderEmpty(self) ==
    LET props == self.props
        shouldTryToRenderEmpty == Truthy(props.renderEmpty) \/ Truthy(props.renderEmptyInList)
    IN  IF shouldTryToRenderEmpty
           /\ isEmptyListView(props.immutableData, props.enableEmptySections)
        THEN IF Truthy(props.renderEmpty)
             THEN IF IsString(props.renderEmpty)
                  THEN Element("Text", props)
                  ELSE Element("renderEmpty(props)", props)
             ELSE IF Truthy(props.renderEmptyInList)
             THEN IF IsString(props.renderEmptyInList)
                  THEN Element("EmptyListView",
                           [props EXCEPT !.renderRow = Undefined,
                                         !.emptyText = props.renderEmptyInList])
                  ELSE Element("EmptyListView",
                           [props EXCEPT !.renderRow = "function:renderEmptyInList(props)"])
             ELSE Element("null", props)
        ELSE Element("null", props)

\* render: the empty element, or else the ListView given this.state.dataSource
render(self) ==
    LET empty == renderEmpty(self)
    IN  IF empty.type # "null" THEN empty
        ELSE [type |-> "ListView", props |-> self.props, dataSource |-> self.dataSource]

\* The ref callback of the rendered ListView: React calls it with the
\* ListView instance when `element` is the ListView, and with null when a
\* ListView that was mounted is not rendered any more.
Null == "null"

ListViewInstance == "ListView instance"

ref(self, element) ==
    [self EXCEPT !.listViewRef =
        IF element.type = "ListView" THEN ListViewInstance
        ELSE IF @ = ListViewInstance THEN Null ELSE @]

\* mutant: the method is called on this.listViewRef whatever it holds
getMetrics_Unguarded(self) ==
    IF self.listViewRef = ListViewInstance
    THEN "forwarded" ELSE "TypeError"

\* getMetrics, scrollTo, scrollToEnd: what a call does, "forwarded" to the
\* ListView instance or "nothing" (the falsy listViewRef is returned); a call
\* of a method on undefined or null would be a "TypeError".
getMetrics(self) ==
    IF self.listViewRef \notin {Undefined, Null}
    THEN "forwarded" ELSE "nothing"

scrollTo(self) ==
    IF self.listViewRef \notin {Undefined, Null}
    THEN "forwarded" ELSE "nothing"

scrollToEnd(self) ==
    IF self.listViewRef \notin {Undefined, Null}
    THEN "forwarded" ELSE "nothing"

(***************************************************************************)
(* EmptyListView.  An instance is [mounted, props, listData].              *)
(***************************************************************************)
\* static defaultProps of EmptyListView
EmptyListView_defaultProps(props) ==
    [props EXCEPT !.emptyText = IF @ = Undefined THEN "No data." ELSE @]

\* Immutable.fromJS([a, b, c]): a List of the three
fromJS(array) == Nested(IndexKeys(array))

\* list.set(0, value) with value a List: the first element replaced, or the
\* value appended to an empty list
set0(list, value) ==
    [type |-> "List", nested |-> TRUE,
     entries |-> IF list.entries = <<>>
                 THEN <<[key |-> 0, value |-> value]>>
                 ELSE [list.entries EXCEPT ![1] = [key |-> 0, value |-> value]]]

NewEmptyListView(props) ==
    [mounted |-> TRUE, props |-> props, listData |-> UNITARY_LIST]

setListDataFromProps(self, props) ==
    [self EXCEPT !.listData =
        set0(self.listData,
             fromJS(<<props.renderEmpty, props.renderEmptyInList, props.emptyText>>))]

\* EmptyListView's own renderRow: a Text showing the emptyText prop
EmptyListView_renderRow(self) == [type |-> "Text", children |-> self.props.emptyText]

EmptyListView_componentWillMount(self) == setListDataFromProps(self, self.props)

EmptyListView_componentWillReceiveProps(self, nextProps) ==
    [setListDataFromProps(self, nextProps) EXCEPT !.props = nextProps]

\* mutant: every prop of the EmptyListView is passed through, the empty-render
\* options and renderSectionHeader too, and over immutableData={listData}
EmptyListView_render_AllPassedThrough(self, id) ==
    defaultProps(
        MkProps(id, self.props.immutableData, self.props.rowsDuringInteraction,
                self.props.renderSectionHeader, self.props.renderEmpty,
                self.props.renderEmptyInList, self.props.enableEmptySections,
                IF self.props.renderRow = Undefined
                THEN "function:EmptyListView.renderRow" ELSE self.props.renderRow,
                self.props.emptyText))

\* The props of the <ImmutableListView> element EmptyListView renders: its own
\* row renderer unless the pass-through props carry one, the pass-through
\* props (all but renderEmpty, renderEmptyInList, renderSectionHeader and
\* emptyText), and listData as immutableData; `id` names the new props object.
EmptyListView_render(self, id) ==
    defaultProps(
        MkProps(id, self.listData, self.props.rowsDuringInteraction, FALSE,
                Undefined, Undefined, self.props.enableEmptySections,
                IF self.props.renderRow = Undefined
                THEN "function:EmptyListView.renderRow" ELSE self.props.renderRow,
                Undefined))


(***************************************************************************)
(* The host's inputs: the collections and the props it passes.             *)
(***************************************************************************)
NoRows == ListOf(<<>>)

Rows3 == ListOf(<<"a", "b", "c">>)

Rows2 == ListOf(<<"d", "a">>)

\* keys in an order that is not their sorted order
Keyed == MapOf(<< <<5, "a">>, <<3, "b">>, <<4, "c">> >>)

Sections == SectionMapOf(<< <<7, <<"a", "b">> >>, <<4, <<"c">> >>, <<6, <<"d", "e">> >> >>)

OneSection == SectionMapOf(<< <<9, <<"a", "b", "c">> >> >>)

EmptySections == SectionMapOf(<< <<2, <<>> >>, <<1, <<>> >> >>)

\* props as the host writes them (the id is given when they are passed)
HostProps(data, rows, sectionHeader, empty, emptyInList, emptySections) ==
    MkProps(0, data, rows, sectionHeader, empty, emptyInList, emptySections,
            HostFunction, Undefined)

\* The families of props a host moves within: the mount and every update of
\* one behaviour draw from one family.
InteractionFamily ==
    { HostProps(d, n, FALSE, Undefined, Undefined, TRUE) :
        d \in {Rows3, Rows2}, n \in {Absent, 0, 2} }

ShapeFamily ==
    { HostProps(d, n, TRUE, Undefined, Undefined, TRUE) :
        d \in {Sections, OneSection}, n \in {Absent, 1} }
    \cup { HostProps(Keyed, n, FALSE, Undefined, Undefined, TRUE) : n \in {Absent, 1} }

EmptyFamily ==
    { HostProps(NoRows, Absent, FALSE, e, l, TRUE) :
        e \in {Undefined, "Nope", HostFunction},
        l \in {Undefined, "", HostFunction} }
    \cup { HostProps(Rows2, Absent, FALSE, "Nope", "Nothing here", TRUE) }

PlaceholderFamily ==
    { HostProps(d, n, FALSE, Undefined, l, TRUE) :
        d \in {NoRows, Rows2}, n \in {Absent, 0, 1}, l \in {"Nothing here"} }
    \cup { HostProps(NoRows, 0, FALSE, "", HostFunction, TRUE) }

EmptySectionsFamily ==
    { HostProps(d, Absent, TRUE, e, Undefined, s) :
        d \in {EmptySections, OneSection}, e \in {Undefined, "Nope"}, s \in BOOLEAN }

\* the host leaves immutableData out
InvalidFamily ==
    { HostProps(d, n, FALSE, Undefined, Undefined, TRUE) :
        d \in {Missing, Rows2}, n \in {Absent, 1} }

\* rowsDuringInteraction negative, left out, and set
SchedulingFamily ==
    { HostProps(Rows3, n, FALSE, Undefined, Undefined, TRUE) : n \in {-1, Absent, 2} }

FamilyNames ==
    {"interaction", "shape", "empty", "placeholder", "emptySections", "invalid",
     "scheduling"}

Family(name) ==
    CASE name = "interaction" -> InteractionFamily
      [] name = "shape" -> ShapeFamily
      [] name = "empty" -> EmptyFamily
      [] name = "placeholder" -> PlaceholderFamily
      [] name = "emptySections" -> EmptySectionsFamily
      [] name = "invalid" -> InvalidFamily
      [] name = "scheduling" -> SchedulingFamily

(***************************************************************************)
(* The state.                                                              *)
(***************************************************************************)
VARIABLES
    hostProps,    \* the name of the family of props the host draws from
    phase,        \* of the outer view: "constructed", "mounted", "unmounted", "crashed"
    outer,        \* the ImmutableListView the host renders
    placeholder,  \* the EmptyListView the outer view renders, when it does
    inner,        \* the ImmutableListView the EmptyListView renders
    innerInst,    \* how many inner instances have been constructed
    queue,        \* InteractionManager's tasks, first scheduled first
    updates,      \* how many times the host has passed new props
    view,         \* what is on screen: the component path and the ListView's dataSource
    lastCall      \* the imperative method the host has just called, and what it did

vars == <<hostProps, phase, outer, placeholder, inner, innerInst, queue, updates, view,
          lastCall>>

NoCall == [method |-> "none", outcome |-> "none"]

NoProps == MkProps(0, NoRows, Absent, FALSE, Undefined, Undefined, TRUE, Undefined, Undefined)

NoPlaceholder == [mounted |-> FALSE, props |-> NoProps, listData |-> UNITARY_LIST]

NoInner == NewImmutableListView(NoProps)

NoView == [path |-> <<>>, dataSource |-> NewDataSource]

\* the tasks of one instance: target "outer" or "inner", and for inner which
\* instance
Tasks(scheduled, target, inst) ==
    [i \in 1..Len(scheduled) |-> [target |-> target, inst |-> inst, props |-> scheduled[i]]]

(***************************************************************************)
(* React rendering the outer view `o` and, below it, mounting, updating or *)
(* unmounting the EmptyListView and its ImmutableListView, and calling the *)
(* ref callbacks of the ListViews.                                         *)
(***************************************************************************)
Reconcile(o, ph, inn, inst) ==
    LET el == render(o)
    IN  IF el.type = "EmptyListView"
        THEN LET elProps == EmptyListView_defaultProps(el.props)
                 ph2 == IF ph.mounted
                        THEN EmptyListView_componentWillReceiveProps(ph, elProps)
                        ELSE EmptyListView_componentWillMount(NewEmptyListView(elProps))
                 innerProps == EmptyListView_render(ph2, IF ph.mounted THEN Len(inn.log) ELSE 0)
                 r == IF ph.mounted
                      THEN componentWillReceiveProps(inn, innerProps)
                      ELSE componentWillMount(NewImmutableListView(innerProps))
                 inst2 == IF ph.mounted THEN inst ELSE inst + 1
                 leaf == render(r.self)
             IN  [outer |-> ref(o, el),
                  placeholder |-> ph2, inner |-> ref(r.self, leaf), innerInst |-> inst2,
                  scheduled |-> Tasks(r.scheduled, "inner", inst2),
                  view |-> [path |-> <<"ImmutableListView", "EmptyListView",
                                       "ImmutableListView", leaf.type>>,
                            dataSource |-> leaf.dataSource]]
        ELSE [outer |-> ref(o, el),
              placeholder |-> NoPlaceholder,
              inner |-> IF ph.mounted
                        THEN ref(componentWillUnmount(inn), Element("null", inn.props))
                        ELSE inn,
              innerInst |-> inst,
              scheduled |-> <<>>,
              view |-> [path |-> <<"ImmutableListView", el.type>>,
                        dataSource |-> el.dataSource]]

(***************************************************************************)
(* Init: the outer view is constructed with the host's props.              *)
(***************************************************************************)
Init ==
    /\ hostProps \in FamilyNames
    /\ phase = "constructed"
    /\ \E p \in Family(hostProps) : outer = NewImmutableListView(defaultProps(p))
    /\ placeholder = NoPlaceholder
    /\ inner = NoInner
    /\ innerInst = 0
    /\ queue = <<>>
    /\ updates = 0
    /\ view = NoView
    /\ lastCall = NoCall

\* An error thrown by a lifecycle method of the outer view `o` and caught by
\* nobody: React unmounts the whole tree, calling componentWillUnmount and the
\* ref callbacks of what was mounted.
Uncaught(o, wasMounted) ==
    /\ phase' = "crashed"
    /\ outer' = IF wasMounted
                THEN ref(componentWillUnmount(o), Element("null", o.props))
                ELSE o
    /\ placeholder' = NoPlaceholder
    /\ inner' = IF placeholder.mounted
                THEN ref(componentWillUnmount(inner), Element("null", inner.props))
                ELSE inner
    /\ view' = NoView
    /\ UNCHANGED <<innerInst, queue>>

\* React mounts the outer view: componentWillMount, then render
Mount ==
    /\ phase = "constructed"
    /\ LET r == componentWillMount(outer)
           t == Reconcile(r.self, placeholder, inner, innerInst)
       IN  IF r.thrown
           THEN Uncaught(r.self, FALSE)
           ELSE /\ outer' = t.outer
                /\ placeholder' = t.placeholder
                /\ inner' = t.inner
                /\ innerInst' = t.innerInst
                /\ queue' = queue \o Tasks(r.scheduled, "outer", 0) \o t.scheduled
                /\ view' = t.view
                /\ phase' = "mounted"
    /\ lastCall' = NoCall
    /\ UNCHANGED <<hostProps, updates>>

\* The host passes a new props object: componentWillReceiveProps, then render
Update ==
    /\ phase = "mounted"
    /\ updates < MaxUpdates
    /\ \E p \in Family(hostProps) :
         LET newProps == defaultProps([p EXCEPT !.id = updates + 1])
             r == componentWillReceiveProps(outer, newProps)
             t == Reconcile(r.self, placeholder, inner, innerInst)
         IN  IF r.thrown
             THEN Uncaught(r.self, TRUE)
             ELSE /\ outer' = t.outer
                  /\ placeholder' = t.placeholder
                  /\ inner' = t.inner
                  /\ innerInst' = t.innerInst
                  /\ queue' = queue \o Tasks(r.scheduled, "outer", 0) \o t.scheduled
                  /\ view' = t.view
                  /\ UNCHANGED phase
    /\ updates' = updates + 1
    /\ lastCall' = NoCall
    /\ UNCHANGED hostProps

\* InteractionManager runs the first task: a callback of the outer view
RunOuterCallback ==
    /\ queue # <<>>
    /\ Head(queue).target = "outer"
    /\ LET o == setStateFromProps(outer, Head(queue).props, TRUE)
       IN  /\ IF o # outer
              THEN LET t == Reconcile(o, placeholder, inner, innerInst)
                   IN  /\ outer' = t.outer
                       /\ placeholder' = t.placeholder
                       /\ inner' = t.inner
                       /\ innerInst' = t.innerInst
                       /\ queue' = Tail(queue) \o t.scheduled
                       /\ view' = t.view
              ELSE /\ queue' = Tail(queue)
                   /\ UNCHANGED <<outer, placeholder, inner, innerInst, view>>
    /\ lastCall' = NoCall
    /\ UNCHANGED <<hostProps, phase, updates>>

\* InteractionManager runs the first task: a callback of an inner view, which
\* finds canSetState false when its instance has been unmounted
RunInnerCallback ==
    /\ queue # <<>>
    /\ Head(queue).target = "inner"
    /\ LET live == Head(queue).inst = innerInst
           i == IF live THEN setStateFromProps(inner, Head(queue).props, TRUE) ELSE inner
       IN  /\ inner' = i
           /\ view' = IF i # inner
                      THEN [view EXCEPT !.dataSource = render(i).dataSource]
                      ELSE view
    /\ queue' = Tail(queue)
    /\ lastCall' = NoCall
    /\ UNCHANGED <<hostProps, phase, outer, placeholder, innerInst, updates>>

\* React unmounts the outer view and what it rendered
Unmount ==
    /\ phase = "mounted"
    /\ phase' = "unmounted"
    /\ outer' = ref(componentWillUnmount(outer), Element("null", outer.props))
    /\ placeholder' = NoPlaceholder
    /\ inner' = IF placeholder.mounted
                THEN ref(componentWillUnmount(inner), Element("null", inner.props))
                ELSE inner
    /\ view' = NoView
    /\ lastCall' = NoCall
    /\ UNCHANGED <<hostProps, innerInst, queue, updates>>

Next == Mount \/ Update \/ RunOuterCallback \/ RunInnerCallback \/ Unmount

Spec == Init /\ [][Next]_vars

(***************************************************************************)
(* The host calling the imperative methods of the outer view, at any time  *)
(* from its construction on.                                               *)
(***************************************************************************)
state == <<hostProps, phase, outer, placeholder, inner, innerInst, queue, updates, view>>

CallGetMetrics ==
    /\ lastCall' = [method |-> "getMetrics", outcome |-> getMetrics(outer)]
    /\ UNCHANGED state

CallScrollTo ==
    /\ lastCall' = [method |-> "scrollTo", outcome |-> scrollTo(outer)]
    /\ UNCHANGED state

CallScrollToEnd ==
    /\ lastCall' = [method |-> "scrollToEnd", outcome |-> scrollToEnd(outer)]
    /\ UNCHANGED state

NextWithCalls ==
    \/ Mount \/ Update \/ RunOuterCallback \/ RunInnerCallback \/ Unmount
    \/ CallGetMetrics \/ CallScrollTo \/ CallScrollToEnd

SpecWithCalls == Init /\ [][NextWithCalls]_vars


(***************************************************************************)
(* Properties.                                                             *)
(***************************************************************************)
Last(seq) == seq[Len(seq)]

\* the first n entries of a collection's iteration order
FirstEntries(coll, n) == [i \in 1..Min(n, Size(coll)) |-> coll.entries[i]]

\* a step in which the outer view receives props: its mount or a prop update
ReceivesProps == phase = "constructed" \/ updates' = updates + 1

\* C1: once the outer view is unmounted, a deferred callback that runs commits
\* nothing: the data source, the interaction flag and the record of setState
\* calls of the outer view, the inner view and the screen stay as they were.
C1_NoCommitAfterUnmount ==
    [][phase = "unmounted" =>
          /\ outer'.dataSource = outer.dataSource
          /\ outer'.interactionOngoing = outer.interactionOngoing
          /\ outer'.log = outer.log
          /\ inner' = inner
          /\ view' = view]_vars

\* callbacks of the mount and of a prop update were pending at unmount and
\* have all run since
C1_Witness ==
    /\ phase = "unmounted"
    /\ queue = <<>>
    /\ updates >= 1
    /\ GreaterOrEqualZero(outer.props.rowsDuringInteraction)
    /\ Len(outer.log) = updates + 1
    /\ \A i \in 1..Len(outer.log) :
         ~outer.log[i].finished /\ outer.log[i].partial

\* C3: the data source of a mounted view holds the collection received last,
\* whole or cut to its first rowsDuringInteraction entries.
C3_DataSourceOfLatestCollection ==
    (phase = "mounted") =>
        LET C == outer.props.immutableData
            n == outer.props.rowsDuringInteraction
        IN  \/ outer.dataSource.dataBlob.entries = C.entries
            \/ /\ GreaterOrEqualZero(n)
               /\ outer.dataSource.dataBlob.entries = FirstEntries(C, n)

\* C4: a deferred derivation, while it is pending and when it is committed,
\* comes after the committed synchronous derivation of the same props object.
C4_SyncBeforeDeferred ==
    /\ \A i \in 1..Len(queue) :
         queue[i].target = "outer" =>
             \E j \in 1..Len(outer.log) :
                 outer.log[j].id = queue[i].props.id /\ ~outer.log[j].finished
    /\ \A i \in 1..Len(outer.log) :
         outer.log[i].finished =>
             \E j \in 1..(i - 1) :
                 outer.log[j].id = outer.log[i].id /\ ~outer.log[j].finished

\* two prop updates arrived before any callback ran, then all three ran
C4_Witness ==
    /\ updates = 2
    /\ Len(outer.log) = 6
    /\ \A i \in 1..3 : ~outer.log[i].finished /\ outer.log[i].partial
    /\ \A i \in 4..6 : outer.log[i].finished /\ outer.log[i].id = i - 4


\* C2 (as claimed): with rowsDuringInteraction = n, the data source committed
\* at mount exposes at most n rows; once the callback of the current props
\* object has run the data source exposes every row of its collection; and no
\* commit after that callback derives partial data.
C2_PartialThenFullNeverBack ==
    (phase = "mounted" /\ GreaterOrEqualZero(outer.props.rowsDuringInteraction)) =>
        LET log == outer.log
            n == outer.props.rowsDuringInteraction
            C == outer.props.immutableData
        IN  /\ (Len(log) = 1 /\ updates = 0) => getRowCount(outer.dataSource) <= n
            /\ (Last(log).finished /\ Last(log).id = outer.props.id) =>
                  /\ outer.dataSource.dataBlob.entries = C.entries
                  /\ Len(outer.dataSource.rowIdentities) > 0
            /\ \A i \in 1..Len(log) :
                  (log[i].finished /\ log[i].id = outer.props.id) =>
                      \A j \in (i + 1)..Len(log) : ~log[j].partial

\* C5 (as claimed): a mounted view whose callbacks have all run, at least one
\* of them having been scheduled, has the interaction flag cleared and holds
\* the full derivation of the collection received last.
C5_SettlesOnLatestFull ==
    (/\ phase = "mounted"
     /\ queue = <<>>
     /\ \E i \in 1..Len(outer.log) : outer.log[i].finished) =>
        /\ ~outer.interactionOngoing
        /\ outer.dataSource.dataBlob.entries = outer.props.immutableData.entries

\* C6 (as claimed): while the partial derivation is in effect the data source
\* exposes at most rowsDuringInteraction rows.
C6_PartialRowsAtMostN ==
    (/\ phase = "mounted"
     /\ Len(outer.log) > 0
     /\ Last(outer.log).partial) =>
        getRowCount(outer.dataSource) <= outer.props.rowsDuringInteraction


\* C7: what a mounted view renders.  With an empty collection (in the sense
\* of utils.isEmptyListView) and renderEmpty set (truthy), the standalone
\* content and nothing else; with an empty collection and only
\* renderEmptyInList set, the EmptyListView; otherwise the ListView, given the
\* stored data source.
C7_RenderBranch ==
    (phase = "mounted") =>
        LET p == outer.props
            empty == isEmptyListView(p.immutableData, p.enableEmptySections)
        IN  /\ Len(view.path) \in {2, 4}
            /\ view.path[1] = "ImmutableListView"
            /\ (empty /\ Truthy(p.renderEmpty)) =>
                  /\ view.path = <<"ImmutableListView",
                                   IF IsString(p.renderEmpty)
                                   THEN "Text" ELSE "renderEmpty(props)">>
                  /\ ~placeholder.mounted
            /\ (empty /\ ~Truthy(p.renderEmpty) /\ Truthy(p.renderEmptyInList)) =>
                  /\ view.path[2] = "EmptyListView"
                  /\ placeholder.mounted
            /\ (~empty \/ (~Truthy(p.renderEmpty) /\ ~Truthy(p.renderEmptyInList))) =>
                  /\ view.path = <<"ImmutableListView", "ListView">>
                  /\ view.dataSource = outer.dataSource
                  /\ ~placeholder.mounted

\* both options are set, the collection is empty and the standalone text is
\* what is on screen
C7_Witness ==
    /\ phase = "mounted"
    /\ IsEmpty(outer.props.immutableData)
    /\ outer.props.renderEmpty = "Nope"
    /\ outer.props.renderEmptyInList = "No data."
    /\ view.path = <<"ImmutableListView", "Text">>
    /\ updates >= 1

\* C8 (as claimed): whenever the EmptyListView is rendered, the list it
\* delegates to exposes exactly one row.
C8_PlaceholderHasOneRow ==
    (phase = "mounted" /\ view.path # <<>> /\ view.path[2] = "EmptyListView") =>
        /\ view.path[4] = "ListView"
        /\ getRowCount(view.dataSource) = 1

\* C9: after the mount and after every prop update with a flat collection C,
\* no section-header renderer and no rowsDuringInteraction, the stored data
\* source has C's keys as row keys, in C's iteration order, and the row at
\* each key is C's value at that key.
C9_FlatRowsAreTheCollection ==
    [][(/\ ReceivesProps
        /\ phase' = "mounted"
        /\ ~outer'.props.immutableData.nested
        /\ ~outer'.props.renderSectionHeader
        /\ ~GreaterOrEqualZero(outer'.props.rowsDuringInteraction)) =>
           LET C == outer'.props.immutableData
               ds == outer'.dataSource
           IN  /\ ds.sectionIdentities = <<DefaultSectionID>>
               /\ ds.rowIdentities = << [i \in 1..Size(C) |-> C.entries[i].key] >>
               /\ \A i \in 1..Size(C) :
                    getRowData(ds, DefaultSectionID, C.entries[i].key) = C.entries[i].value
       ]_vars

\* a keyed collection whose keys are not in sorted order, after a prop update
C9_Witness ==
    /\ phase = "mounted"
    /\ updates >= 1
    /\ outer.props.immutableData = Keyed
    /\ outer.props.rowsDuringInteraction = Absent
    /\ outer.dataSource.rowIdentities = << <<5, 3, 4>> >>
    /\ Last(outer.log).id = outer.props.id

C11_ImperativeCallsForwardedOrNothing ==
    (lastCall.method # "none") =>
        /\ lastCall.outcome \in {"forwarded", "nothing"}
        /\ lastCall.outcome = "forwarded" <=>
              /\ phase = "mounted"
              /\ view.path = <<"ImmutableListView", "ListView">>

\* the ListView was mounted, a prop update switched to an empty-state branch,
\* and a call made then did nothing
C11_Witness ==
    /\ phase = "mounted"
    /\ updates >= 1
    /\ outer.listViewRef = Null
    /\ view.path[2] = "EmptyListView"
    /\ lastCall = [method |-> "getMetrics", outcome |-> "nothing"]


\* C12: a collection that fails validation (immutableData left out) never
\* makes a lifecycle method throw: the mount and every prop update complete
\* their derivation, with rowsDuringInteraction set or not, rendering is not
\* aborted, and the mounted view has something rendered.
C12_InvalidCollectionNeverAborts ==
    /\ phase # "crashed"
    /\ (phase = "mounted" /\ outer.props.immutableData = Missing) =>
           /\ Len(view.path) >= 2
           /\ Len(outer.log) >= 1 + updates

\* the deferred derivations of the outer view that are pending
Pending(q) == SelectSeq(q, LAMBDA task : task.target = "outer")

\* C13 (as claimed): the mount and every prop update commit exactly one
\* synchronous derivation, of the props object received, and schedule exactly
\* one deferred derivation when its rowsDuringInteraction is a number >= 0 and
\* none otherwise, in which case the synchronous derivation is of the full
\* collection; any other step schedules none, and takes a pending derivation
\* away only by running the first one: none is cancelled, by the unmount
\* either.
C13_OneSyncAndDeferredIffConfigured ==
    [][IF ReceivesProps
       THEN LET props == IF phase = "constructed" THEN outer.props ELSE outer'.props
                n == props.rowsDuringInteraction
            IN  /\ Len(outer'.log) = Len(outer.log) + 1
                /\ Last(outer'.log).id = props.id
                /\ ~Last(outer'.log).finished
                /\ Pending(queue') =
                      IF GreaterOrEqualZero(n)
                      THEN Append(Pending(queue), [target |-> "outer", inst |-> 0,
                                                   props |-> props])
                      ELSE Pending(queue)
                /\ ~GreaterOrEqualZero(n) =>
                      /\ ~Last(outer'.log).partial
                      /\ outer'.dataSource.dataBlob = props.immutableData
       ELSE /\ \/ Pending(queue') = Pending(queue)
               \/ Pending(queue) # <<>> /\ Pending(queue') = Tail(Pending(queue))
            /\ (phase = "mounted" /\ phase' = "unmounted") =>
                   Pending(queue') = Pending(queue)
      ]_vars

\* the step from instance `a` to `b` changes the interaction flag only from
\* true to false, by the commit of a deferred derivation on a mounted instance
FlagOnlyFalls(a, b) ==
    (b.interactionOngoing # a.interactionOngoing) =>
        /\ a.interactionOngoing /\ ~b.interactionOngoing
        /\ a.canSetState
        /\ Len(b.log) = Len(a.log) + 1
        /\ Last(b.log).finished

\* a derivation of `props` committed in the step from `a` to `b`, the flag of
\* `a` being false, is of the whole collection
FullOnceFallen(a, b, props) ==
    (~a.interactionOngoing /\ Len(b.log) > Len(a.log)) =>
        /\ ~Last(b.log).partial
        /\ b.dataSource.dataBlob = props.immutableData

\* a step that runs the first pending task, a callback of the `target` view
RunsCallbackOf(target) ==
    ~ReceivesProps /\ queue # <<>> /\ Head(queue).target = target

\* C14: the interaction flag starts true; it changes only from true to false,
\* only in a step that commits a deferred derivation on a mounted view, and a
\* mount or a prop update leaves it as it is; once it is false every
\* derivation committed, the synchronous one of a prop update with
\* rowsDuringInteraction set included, is of the whole collection.  This is
\* said of the outer view and of the view inside the placeholder.
C14_FlagFallsOnceAtDeferredCommit ==
    /\ outer.interactionOngoing /\ inner.interactionOngoing
    /\ [][/\ FlagOnlyFalls(outer, outer')
          /\ ReceivesProps => outer'.interactionOngoing = outer.interactionOngoing
          /\ outer'.interactionOngoing # outer.interactionOngoing =>
                phase = "mounted" /\ RunsCallbackOf("outer")
          /\ FullOnceFallen(outer, outer',
                 IF RunsCallbackOf("outer") THEN Head(queue).props ELSE outer'.props)
          /\ innerInst' = innerInst =>
                /\ FlagOnlyFalls(inner, inner')
                /\ inner'.interactionOngoing # inner.interactionOngoing =>
                      placeholder.mounted /\ RunsCallbackOf("inner")
                /\ FullOnceFallen(inner, inner',
                       IF RunsCallbackOf("inner") THEN Head(queue).props ELSE inner'.props)
         ]_vars

\* the callback of the mount has committed, then a prop update with
\* rowsDuringInteraction = 0 and three rows has derived all three
C14_Witness ==
    /\ phase = "mounted"
    /\ updates >= 1
    /\ ~outer.interactionOngoing
    /\ outer.props.rowsDuringInteraction = 0
    /\ Last(outer.log) = [id |-> updates, finished |-> FALSE, partial |-> FALSE]
    /\ getRowCount(outer.dataSource) = 3

\* C15: whether an empty state is rendered is decided on the whole collection
\* of the current props, not on the data the data source was derived from:
\* while the view is mounted with a collection that is not empty, the ListView
\* is rendered and neither the standalone content nor the EmptyListView is,
\* whatever the stored data source exposes.
C15_NonEmptyCollectionRendersListView ==
    (/\ phase = "mounted"
     /\ ~isEmptyListView(outer.props.immutableData, outer.props.enableEmptySections)) =>
        /\ view.path = <<"ImmutableListView", "ListView">>
        /\ ~placeholder.mounted
        /\ view.dataSource = outer.dataSource

\* two rows, rowsDuringInteraction = 0 and the interaction ongoing: the data
\* source exposes no row, an in-list empty option is set, the ListView is
\* rendered
C15_Witness ==
    /\ phase = "mounted"
    /\ outer.props.immutableData = Rows2
    /\ outer.props.rowsDuringInteraction = 0
    /\ outer.props.renderEmptyInList = "Nothing here"
    /\ outer.interactionOngoing
    /\ getRowCount(outer.dataSource) = 0
    /\ view.path = <<"ImmutableListView", "ListView">>

\* C16: the ImmutableListView inside the EmptyListView is given a collection of
\* one element and neither empty-render option of the outer view (it has only
\* its own default in-list text), so what it renders is the ListView, never an
\* EmptyListView again: whatever the outer view is given, the components on
\* screen are at most ImmutableListView, EmptyListView, ImmutableListView,
\* ListView.
C16_CompositionTerminates ==
    /\ Len(view.path) <= 4
    /\ placeholder.mounted =>
          /\ view.path = <<"ImmutableListView", "EmptyListView",
                           "ImmutableListView", "ListView">>
          /\ Size(inner.props.immutableData) = 1
          /\ inner.props.renderEmpty = Undefined
          /\ inner.props.renderEmptyInList = "No data."
          /\ ~inner.props.renderSectionHeader
          /\ render(inner).type = "ListView"

\* the placeholder on screen for an outer view whose in-list option is a
\* function, with rowsDuringInteraction = 0 passed through
C16_Witness ==
    /\ phase = "mounted"
    /\ placeholder.mounted
    /\ outer.props.renderEmptyInList = HostFunction
    /\ outer.props.rowsDuringInteraction = 0
    /\ inner.props.rowsDuringInteraction = 0
    /\ view.path[4] = "ListView"

\* C17: while the EmptyListView is on screen, the renderer of its one row
\* follows the kind of the outer view's renderEmptyInList.  A string: the
\* EmptyListView is given no renderRow and that string as emptyText, so the
\* row is drawn by its own renderRow, a Text showing the string.  A function:
\* the EmptyListView is given, and passes on, a renderRow that calls the
\* function with the outer view's props.  The host's renderRow draws the row
\* in neither case.
C17_PlaceholderRowRenderer ==
    placeholder.mounted =>
        LET option == outer.props.renderEmptyInList
        IN  /\ outer.props.renderRow = HostFunction
            /\ inner.props.renderRow # HostFunction
            /\ IsString(option) =>
                  /\ placeholder.props.renderRow = Undefined
                  /\ inner.props.renderRow = "function:EmptyListView.renderRow"
                  /\ EmptyListView_renderRow(placeholder) =
                        [type |-> "Text", children |-> option]
            /\ IsFunction(option) =>
                  /\ placeholder.props.renderRow = "function:renderEmptyInList(props)"
                  /\ inner.props.renderRow = "function:renderEmptyInList(props)"
            /\ IsString(option) \/ IsFunction(option)

\* the in-list option is the string "Nothing here" and the row shows it
C17_Witness ==
    /\ phase = "mounted"
    /\ placeholder.mounted
    /\ outer.props.renderEmptyInList = "Nothing here"
    /\ outer.props.renderRow = HostFunction
    /\ placeholder.props.emptyText = "Nothing here"
    /\ inner.props.renderRow = "function:EmptyListView.renderRow"

=========================================================================
